---- MODULE Spec2Model ----
(***************************************************************************)
(* Model of script.js of adaboost_practice: the synthetic dataset          *)
(* generator, the Gini decision-stump trainer, the "say" (alpha)           *)
(* computation and the three page handlers (regenerate, reveal, download). *)
(*                                                                         *)
(* Numbers.  JavaScript numbers are IEEE-754 doubles.  The model writes a  *)
(* double as an integer position on a uniform grid of representable        *)
(* values: comparison and equality of doubles are comparison and equality  *)
(* of positions, a sum of two grid values is exact, and halving a sum      *)
(* rounds to the grid, ties to the even position (operator Midpoint).      *)
(* This is exactly what IEEE-754 does inside one binade: with position v   *)
(* standing for the double 1 + v * 2^-52, (a + b) / 2 of the doubles at    *)
(* positions 1 and 2 is the double at position 2.  The generator computes  *)
(* its values in fixed point, one grid step being 10^-4, and produces      *)
(* even positions only, whose midpoints are exact.                         *)
(* Quotients of counts (Gini impurities, error rates) are exact rationals, *)
(* written as reduced fractions <<numerator, denominator>>.  On datasets   *)
(* of up to five rows the doubles the script computes for the weighted     *)
(* impurities are ordered exactly as these rationals are.  From six rows   *)
(* on, two boundaries whose impurities are equal as rationals can get      *)
(* doubles one unit in the last place apart (left counts (0,2), right      *)
(* counts (2,4): 0.3333333333333333; left (1,5), right (1,1):              *)
(* 0.33333333333333326), and the script then compares the doubles: for it  *)
(* two impurities are equal when the computed doubles are.                 *)
(***************************************************************************)
EXTENDS Integers, Sequences, FiniteSets, TLC

VARIABLES
    currentData,          \* init(): let currentData      (script.js:231)
    currentFeatureCount,  \* init(): let currentFeatureCount (script.js:232)
    answerText,           \* #answerText.textContent
    tableView,            \* what renderTable put into #tableContainer
    download,             \* the file of the download click that ran last
    lastEvent,            \* the handler or function that ran last
    say,                  \* the say value of the reveal click that ran last
    arg,                  \* argument of the last direct function call
    ret                   \* value that call returned

vars == <<currentData, currentFeatureCount, answerText, tableView, download,
          lastEvent, say, arg, ret>>

(***************************************************************************)
(* Bounds of the model.                                                    *)
(***************************************************************************)
\* longest dataset handed to the trainer directly
MaxRows == 3
\* feature values handed to the trainer directly are grid positions 1..MaxVal
MaxVal == 2
\* length of the tape of rand() values, which is read cyclically
TapeLen == 3
\* largest n handed to generateDataset directly
MaxN == 3
\* largest denominator of an error rate handed to computeSay directly
MaxDen == 12

(***************************************************************************)
(* Values of the language.                                                 *)
(***************************************************************************)
\* the null of "let x3 = null": an integer no number of the model equals
Null == -1000000

\* typeof x === 'number'
IsNumber(x) == x # Null

\* no value: a variable that holds nothing yet
None == "none"

(***************************************************************************)
(* Exact rationals.                                                        *)
(***************************************************************************)
RECURSIVE Gcd(_, _)
Gcd(a, b) == IF b = 0 THEN a ELSE Gcd(b, a % b)

Abs(a) == IF a < 0 THEN -a ELSE a

\* the quotient num / den (den > 0) as a reduced fraction
Frac(num, den) ==
    LET g == Gcd(Abs(num), den)
    IN  <<num \div g, den \div g>>

\* Infinity, the initial best.impurity
Infinity == <<1, 0>>

\* p < q on fractions (and on Infinity)
FracLess(p, q) == p[1] * q[2] < q[1] * p[2]

FracLeq(p, q) == p[1] * q[2] <= q[1] * p[2]

(***************************************************************************)
(* trainDecisionStumpGini                                                  *)
(***************************************************************************)
\* r[fname]
Feature(r, fname) ==
    CASE fname = "f1" -> r.f1
      [] fname = "f2" -> r.f2
      [] fname = "f3" -> r.f3

\* rows.some(r => typeof r.f3 === 'number')
HasF3(rows) == \E i \in 1..Len(rows) : IsNumber(rows[i].f3)

\* mutant: f3 is never searched
FeatureNamesNoF3(rows) == <<"f1", "f2">>

\* const featureNames = ['f1', 'f2']; if (rows.some(...)) featureNames.push('f3')
FeatureNames(rows) ==
    IF HasF3(rows) THEN <<"f1", "f2", "f3">> ELSE <<"f1", "f2">>

\* giniOfCounts: 1 - (p0 * p0 + p1 * p1), 0 for an empty group
GiniOfCounts(count0, count1) ==
    LET total == count0 + count1
    IN  IF total = 0 THEN <<0, 1>>
        ELSE Frac(total * total - (count0 * count0 + count1 * count1),
                  total * total)

\* (nLeft * gLeft + nRight * gRight) / (nLeft + nRight)
WeightedImpurity(left0, left1, right0, right1) ==
    LET gLeft == GiniOfCounts(left0, left1)
        gRight == GiniOfCounts(right0, right1)
        nLeft == left0 + left1
        nRight == right0 + right1
    IN  Frac(nLeft * gLeft[1] * gRight[2] + nRight * gRight[1] * gLeft[2],
             gLeft[2] * gRight[2] * (nLeft + nRight))

\* (p.x + next.x) / 2 in double arithmetic: the sum is exact, the halving
\* rounds to the grid, a tie going to the even position
Midpoint(a, b) ==
    LET s == a + b
        k == s \div 2
    IN  IF s % 2 = 0 THEN k
        ELSE IF k % 2 = 0 THEN k ELSE k + 1

\* mutant: a tie predicts 0
MajorityTieToZero(count0, count1) == IF count1 > count0 THEN 1 ELSE 0

\* count1 >= count0 ? 1 : 0
Majority(count0, count1) == IF count1 >= count0 THEN 1 ELSE 0

\* mutant: <= in place of <, a later tie replaces the best
ImprovesOrTies(impurity, bestImpurity) == FracLeq(impurity, bestImpurity)

\* weightedImpurity < best.impurity
Improves(impurity, bestImpurity) == FracLess(impurity, bestImpurity)

\* rows.map(r => ({ x: r[fname], y: r.y })).filter(p => typeof p.x === 'number')
RECURSIVE MapFilter(_, _)
MapFilter(rows, fname) ==
    IF rows = <<>> THEN <<>>
    ELSE LET r == Head(rows)
             rest == MapFilter(Tail(rows), fname)
         IN  IF IsNumber(Feature(r, fname))
             THEN <<[x |-> Feature(r, fname), y |-> r.y]>> \o rest
             ELSE rest

\* Array.prototype.sort with (a, b) => a.x - b.x: ascending and stable
RECURSIVE InsertPair(_, _)
InsertPair(p, s) ==
    IF s = <<>> THEN <<p>>
    ELSE IF p.x < Head(s).x THEN <<p>> \o s
    ELSE <<Head(s)>> \o InsertPair(p, Tail(s))

RECURSIVE SortPairs(_)
SortPairs(s) ==
    IF s = <<>> THEN <<>>
    ELSE InsertPair(s[Len(s)], SortPairs(SubSeq(s, 1, Len(s) - 1)))

\* const pairs = rows.map(...).filter(...).sort(...)
Pairs(rows, fname) == SortPairs(MapFilter(rows, fname))

\* the number of pairs with label y
CountLabel(prs, y) == Cardinality({i \in 1..Len(prs) : prs[i].y = y})

\* the initial best
InitialBest ==
    [feature |-> None, threshold |-> Null, impurity |-> Infinity,
     leftPred |-> 0, rightPred |-> 0]

\* the inner loop over i = 0 .. pairs.length - 2 (i is 1-based here);
\* left0, left1 are the counts before pairs[i] is added
RECURSIVE ScanBoundaries(_, _, _, _, _, _, _, _)
ScanBoundaries(fname, prs, i, left0, left1, total0, total1, best) ==
    IF i > Len(prs) - 1 THEN best
    ELSE LET p == prs[i]
             next == prs[i + 1]
             l0 == IF p.y = 0 THEN left0 + 1 ELSE left0
             l1 == IF p.y = 0 THEN left1 ELSE left1 + 1
             right0 == total0 - l0
             right1 == total1 - l1
             weightedImpurity == WeightedImpurity(l0, l1, right0, right1)
             newBest ==
                 IF p.x = next.x THEN best
                 ELSE IF Improves(weightedImpurity, best.impurity)
                 THEN [feature |-> fname,
                       threshold |-> Midpoint(p.x, next.x),
                       impurity |-> weightedImpurity,
                       leftPred |-> Majority(l0, l1),
                       rightPred |-> Majority(right0, right1)]
                 ELSE best
         IN  ScanBoundaries(fname, prs, i + 1, l0, l1, total0, total1, newBest)

\* one iteration of "for (const fname of featureNames)"
ScanFeature(rows, fname, best) ==
    LET prs == Pairs(rows, fname)
    IN  IF Len(prs) = 0 THEN best
        ELSE ScanBoundaries(fname, prs, 1, 0, 0,
                            CountLabel(prs, 0), CountLabel(prs, 1), best)

\* the loop over featureNames, from the k-th name on
RECURSIVE ScanFeatures(_, _, _, _)
ScanFeatures(rows, names, k, best) ==
    IF k > Len(names) THEN best
    ELSE ScanFeatures(rows, names, k + 1, ScanFeature(rows, names[k], best))

\* best after the search loop
BestSplit(rows) == ScanFeatures(rows, FeatureNames(rows), 1, InitialBest)

\* x <= best.threshold; a null x is converted to the number 0
LeqThreshold(x, threshold) ==
    IF x = Null THEN 0 <= threshold ELSE x <= threshold

\* the prediction of the chosen split for row r
Predict(best, r) ==
    IF LeqThreshold(Feature(r, best.feature), best.threshold)
    THEN best.leftPred ELSE best.rightPred

\* the error loop: the number of rows the split predicts wrongly
SplitErrors(rows, best) ==
    Cardinality({i \in 1..Len(rows) : Predict(best, rows[i]) # rows[i].y})

\* the number of rows with label y
CountRows(rows, y) == Cardinality({i \in 1..Len(rows) : rows[i].y = y})

\* the fallback: a single leaf predicting the overall majority class
Fallback(rows) ==
    LET maj == Majority(CountRows(rows, 0), CountRows(rows, 1))
        errCount == Cardinality({i \in 1..Len(rows) : rows[i].y # maj})
    IN  [feature |-> None, threshold |-> Null,
         leftPred |-> maj, rightPred |-> maj,
         errorCount |-> errCount,
         errorRate |-> Frac(errCount, Len(rows))]

\* mutant: the rate is taken over the rows that carry the split feature
SplitResultOverPairs(rows, best) ==
    LET err == SplitErrors(rows, best)
    IN  [feature |-> best.feature, threshold |-> best.threshold,
         leftPred |-> best.leftPred, rightPred |-> best.rightPred,
         errorCount |-> err,
         errorRate |-> Frac(err, Len(Pairs(rows, best.feature)))]

\* the descriptor returned for the chosen split
SplitResult(rows, best) ==
    LET err == SplitErrors(rows, best)
    IN  [feature |-> best.feature, threshold |-> best.threshold,
         leftPred |-> best.leftPred, rightPred |-> best.rightPred,
         errorCount |-> err,
         errorRate |-> Frac(err, Len(rows))]

\* the null that trainDecisionStumpGini returns for "no result"
NoResult == [null |-> TRUE]

\* mutant: no "if (N === 0) return null"; the fallback then divides 0 by 0
trainWithoutEmptyCheck(rows) ==
    IF Len(rows) = 0
    THEN [feature |-> None, threshold |-> Null, leftPred |-> 1,
          rightPred |-> 1, errorCount |-> 0, errorRate |-> <<0, 0>>]
    ELSE LET best == BestSplit(rows)
         IN  IF best.feature = None THEN Fallback(rows)
             ELSE SplitResult(rows, best)

\* trainDecisionStumpGini(rows)
trainDecisionStumpGini(rows) ==
    IF Len(rows) = 0 THEN NoResult
    ELSE LET best == BestSplit(rows)
         IN  IF best.feature = None THEN Fallback(rows)
             ELSE SplitResult(rows, best)

(***************************************************************************)
(* computeSay                                                              *)
(***************************************************************************)
PosInfinity == [kind |-> "+inf"]

NegInfinity == [kind |-> "-inf"]

\* the sign of Math.log(r) for a fraction r > 0: ln r > 0 iff r > 1
LogSign(r) == IF r[1] > r[2] THEN 1 ELSE IF r[1] = r[2] THEN 0 ELSE -1

\* 0.5 * Math.log(r): the finite number with the sign of ln r
HalfLog(r) == [kind |-> "finite", sign |-> LogSign(r), halfLogOf |-> r]

\* mutant: the quotient inverted, err / (1 - err)
computeSayInverted(errorRate) ==
    IF errorRate[1] <= 0 THEN PosInfinity
    ELSE IF errorRate[1] >= errorRate[2] THEN NegInfinity
    ELSE HalfLog(Frac(errorRate[1], errorRate[2] - errorRate[1]))

\* computeSay(errorRate), errorRate a fraction with a positive denominator
computeSay(errorRate) ==
    IF errorRate[1] <= 0 THEN PosInfinity
    ELSE IF errorRate[1] >= errorRate[2] THEN NegInfinity
    ELSE HalfLog(Frac(errorRate[2] - errorRate[1], errorRate[1]))

(***************************************************************************)
(* formatNumber, the answer text                                           *)
(***************************************************************************)
\* x.toFixed(3) of a grid value (one step is 10^-4): the sign and the
\* thousandths nearest to |x|, a tie going to the larger count
ToFixed3(x) == [neg |-> x < 0, milli |-> (Abs(x) + 5) \div 10]

\* formatNumber(x); the empty string for a value that is no number
formatNumber(x) == IF IsNumber(x) THEN ToFixed3(x) ELSE [empty |-> TRUE]

\* (stump.errorRate * 100).toFixed(1), in tenths of a percent
ErrPct(errorRate) ==
    (2 * 1000 * errorRate[1] + errorRate[2]) \div (2 * errorRate[2])

\* Number.isFinite(say) ? say.toFixed(3) : (say > 0 ? '+inf' : '-inf')
SayText(s) ==
    IF s.kind = "finite" THEN [fixed3 |-> s]
    ELSE IF s.kind = "+inf" THEN [symbol |-> "+inf"]
    ELSE [symbol |-> "-inf"]

\* parts of the reveal handler: the three parts joined into answerText
AnswerParts(stump, s, n) ==
    << [say |-> SayText(s)],
       [errPct |-> ErrPct(stump.errorRate),
        errorCount |-> stump.errorCount, of |-> n],
       IF stump.feature # None
       THEN [stump |-> stump.feature,
             threshold |-> formatNumber(stump.threshold),
             leftPred |-> stump.leftPred, rightPred |-> stump.rightPred]
       ELSE [constant |-> stump.leftPred] >>

\* the empty textContent
EmptyText == <<>>

\* no say value computed
NoSay == [kind |-> "none"]

(***************************************************************************)
(* rand and generateDataset                                                *)
(***************************************************************************)
\* The values rand() returns in the model: draw k stands for k / 4.
Draws == 0..3

\* The random source: a tape of draws, read cyclically.
Tapes == [1..TapeLen -> Draws]

\* the j-th value rand() returns (j counts from 0)
rand(tape, j) == tape[(j % Len(tape)) + 1]

\* rand() < 0.5
BelowHalf(u) == u < 2

\* clusterB when fromB, else clusterA: cx, cy in grid steps of 10^-4
Cluster(fromB) ==
    IF fromB THEN [cx |-> 12000, cy |-> 7000]
    ELSE [cx |-> -10000, cy |-> -5000]

\* R = Math.sqrt(-2 * Math.log(u1)) * sigma with sigma = 0.8 and
\* u1 = rand() || 1e-9, to three decimals:
\* 5.150 for 1e-9, 1.332 for 1/4, 0.942 for 1/2, 0.607 for 3/4
Radius(u) ==
    CASE u = 0 -> 51500
      [] u = 1 -> 13320
      [] u = 2 -> 9420
      [] u = 3 -> 6070

\* Math.cos(2 * Math.PI * u2) for u2 = 0, 1/4, 1/2, 3/4
Cos(u) == CASE u = 0 -> 1 [] u = 1 -> 0 [] u = 2 -> -1 [] u = 3 -> 0

\* Math.sin(2 * Math.PI * u2)
Sin(u) == CASE u = 0 -> 0 [] u = 1 -> 1 [] u = 2 -> 0 [] u = 3 -> -1

\* (rand() - 0.5) * 0.5 in grid steps: (u/4 - 1/2) / 2
NoiseX3(u) == (u - 2) * 1250

\* (rand() - 0.5) * 0.2 in grid steps
NoiseScore(u) == (u - 2) * 500

\* the number of rand() calls one loop iteration makes
DrawsPerPoint(featureCount) == IF featureCount = 3 THEN 5 ELSE 4

\* mutant: id: i
PointIdFromZero(i) == i

\* id: i + 1
PointId(i) == i + 1

\* let x3 = null; if (featureCount === 3) x3 = 0.4 * x1 - 0.2 * x2 + noise
X3(featureCount, x1, x2, u) ==
    IF featureCount = 3
    THEN (4 * x1) \div 10 - (2 * x2) \div 10 + NoiseX3(u)
    ELSE Null

\* the body of the loop for index i (from 0); j is the number of rand()
\* calls made before it
GeneratePoint(i, featureCount, tape, j) ==
    LET c == Cluster(BelowHalf(rand(tape, j)))
        R == Radius(rand(tape, j + 1))
        u2 == rand(tape, j + 2)
        x1 == c.cx + R * Cos(u2)
        x2 == c.cy + R * Sin(u2)
        x3 == X3(featureCount, x1, x2, rand(tape, j + 3))
        last == IF featureCount = 3 THEN j + 4 ELSE j + 3
        score == (9 * x1) \div 10 - (7 * x2) \div 10 + 1000
                     + NoiseScore(rand(tape, last))
    IN  [id |-> PointId(i), f1 |-> x1, f2 |-> x2, f3 |-> x3,
         y |-> IF score > 0 THEN 1 ELSE 0]

\* generateDataset(n, featureCount), rand() having been called start times
generateDataset(n, featureCount, tape, start) ==
    [k \in 1..n |->
        GeneratePoint(k - 1, featureCount, tape,
                      start + (k - 1) * DrawsPerPoint(featureCount))]

(***************************************************************************)
(* renderTable, toCSV                                                      *)
(***************************************************************************)
\* the header cells
Headers(first, hasF3) ==
    IF hasF3 THEN <<first, "f1", "f2", "f3", "y">> ELSE <<first, "f1", "f2", "y">>

\* the cells of one row
Cells(r, hasF3) ==
    IF hasF3
    THEN <<[int |-> r.id], formatNumber(r.f1), formatNumber(r.f2),
           formatNumber(r.f3), [int |-> r.y]>>
    ELSE <<[int |-> r.id], formatNumber(r.f1), formatNumber(r.f2),
           [int |-> r.y]>>

\* renderTable(rows): the table and the summary line
renderTable(rows) ==
    LET hasF3 == HasF3(rows)
    IN  [headers |-> Headers("#", hasF3),
         body |-> [i \in 1..Len(rows) |-> Cells(rows[i], hasF3)],
         summary |-> [rows |-> Len(rows),
                      features |-> IF hasF3 THEN 3 ELSE 2,
                      class0 |-> CountRows(rows, 0),
                      class1 |-> CountRows(rows, 1)]]

\* toCSV(rows): the header line and one line per row; '' for no rows
toCSV(rows) ==
    LET hasF3 == HasF3(rows)
    IN  IF Len(rows) = 0 THEN <<>>
        ELSE <<Headers("id", hasF3)>>
                 \o [i \in 1..Len(rows) |-> Cells(rows[i], hasF3)]

(***************************************************************************)
(* The handlers                                                            *)
(***************************************************************************)
\* const n = 15
RowCount == 15

\* rand() < 0.5 ? 2 : 3
ChooseFeatureCount(u) == IF BelowHalf(u) THEN 2 ELSE 3

\* mutant: generateDataset(n), the feature count left to its default
RegenerateDataDefault(featureCount, tape) ==
    generateDataset(RowCount, 2, tape, 1)

\* generateDataset(n, currentFeatureCount), after the one rand() call made
\* to choose the feature count
RegenerateData(featureCount, tape) ==
    generateDataset(RowCount, featureCount, tape, 1)

\* mutant: the answer text is not cleared
AnswerAfterRegenerateKept(text) == text

\* if (answerText) answerText.textContent = ''
AnswerAfterRegenerate(text) == EmptyText

\* regenerate() with the random source tape
RegenerateWith(tape) ==
    LET fc == ChooseFeatureCount(rand(tape, 0))
        data == RegenerateData(fc, tape)
    IN  /\ currentFeatureCount' = fc
        /\ currentData' = data
        /\ tableView' = renderTable(data)
        /\ answerText' = AnswerAfterRegenerate(answerText)
        /\ say' = NoSay
        /\ download' = <<>>
        /\ UNCHANGED <<arg, ret>>

\* a click on the regenerate button
Regenerate ==
    /\ lastEvent' = "regenerate"
    /\ \E tape \in Tapes : RegenerateWith(tape)

\* the reveal click handler
Reveal ==
    /\ lastEvent' = "reveal"
    /\ download' = <<>>
    /\ IF Len(currentData) = 0
       THEN /\ say' = NoSay
            /\ UNCHANGED answerText
       ELSE LET stump == trainDecisionStumpGini(currentData)
            IN  IF stump = NoResult
                THEN /\ say' = NoSay
                     /\ UNCHANGED answerText
                ELSE /\ say' = computeSay(stump.errorRate)
                     /\ answerText' =
                            AnswerParts(stump, computeSay(stump.errorRate),
                                        Len(currentData))
    /\ UNCHANGED <<currentData, currentFeatureCount, tableView, arg, ret>>

\* downloadCSV(): the file offered, its name without the time stamp
Download ==
    /\ lastEvent' = "download"
    /\ say' = NoSay
    /\ IF Len(currentData) = 0
       THEN download' = <<>>
       ELSE download' =
                <<[rows |-> Len(currentData), f |-> currentFeatureCount,
                   csv |-> toCSV(currentData)]>>
    /\ UNCHANGED <<currentData, currentFeatureCount, answerText, tableView,
                   arg, ret>>

(***************************************************************************)
(* Spec: the page.  Init is the state init() leaves: the handlers are      *)
(* registered and regenerate() has run once.                               *)
(***************************************************************************)
Init ==
    /\ lastEvent = "load"
    /\ arg = <<>>
    /\ ret = <<>>
    /\ \E tape \in Tapes :
          LET fc == ChooseFeatureCount(rand(tape, 0))
              data == RegenerateData(fc, tape)
          IN  /\ currentFeatureCount = fc
              /\ currentData = data
              /\ tableView = renderTable(data)
              /\ answerText = AnswerAfterRegenerate(EmptyText)
              /\ say = NoSay
              /\ download = <<>>

Next == Regenerate \/ Reveal \/ Download

Spec == Init /\ [][Next]_vars

(***************************************************************************)
(* FitSpec: the trainer and the reveal handler on every dataset of at most *)
(* MaxRows rows with feature values 0..MaxVal, f3 numeric or null per row. *)
(***************************************************************************)
Vals == 1..MaxVal

PointVals == [f1 : Vals, f2 : Vals, f3 : Vals \cup {Null}, y : {0, 1}]

WithIds(d) ==
    [i \in 1..Len(d) |->
        [id |-> i, f1 |-> d[i].f1, f2 |-> d[i].f2, f3 |-> d[i].f3,
         y |-> d[i].y]]

\* a text left by an earlier reveal
StaleText == <<[say |-> [symbol |-> "+inf"]]>>

FitInit ==
    /\ \E n \in 0..MaxRows : \E d \in [1..n -> PointVals] :
          currentData = WithIds(d)
    /\ currentFeatureCount = 2
    /\ answerText = StaleText
    /\ tableView = [empty |-> TRUE]
    /\ download = <<>>
    /\ lastEvent = "init"
    /\ say = NoSay
    /\ arg = <<>>
    /\ ret = <<>>

\* a direct call trainDecisionStumpGini(currentData)
Fit ==
    /\ lastEvent = "init"
    /\ lastEvent' = "fit"
    /\ arg' = <<currentData>>
    /\ ret' = <<trainDecisionStumpGini(currentData)>>
    /\ UNCHANGED <<currentData, currentFeatureCount, answerText, tableView,
                   download, say>>

FitNext == Fit \/ Reveal

FitSpec == FitInit /\ [][FitNext]_vars

(***************************************************************************)
(* GenSpec: generateDataset(n, featureCount) called directly, for every n  *)
(* up to MaxN, both feature counts and every tape.                         *)
(***************************************************************************)
Idle ==
    /\ currentData = <<>>
    /\ currentFeatureCount = 2
    /\ answerText = EmptyText
    /\ tableView = [empty |-> TRUE]
    /\ download = <<>>
    /\ say = NoSay

GenInit ==
    /\ Idle
    /\ lastEvent = "init"
    /\ \E n \in 0..MaxN, fc \in {2, 3}, tape \in Tapes :
          arg = <<[n |-> n, featureCount |-> fc, tape |-> tape]>>
    /\ ret = <<>>

Generate ==
    /\ lastEvent = "init"
    /\ lastEvent' = "generate"
    /\ ret' = <<generateDataset(arg[1].n, arg[1].featureCount, arg[1].tape, 0)>>
    /\ UNCHANGED <<currentData, currentFeatureCount, answerText, tableView,
                   download, say, arg>>

GenNext == Generate

GenSpec == GenInit /\ [][GenNext]_vars

(***************************************************************************)
(* SaySpec: computeSay(errorRate) called directly on every quotient        *)
(* num / den with den in 1..MaxDen and num from -1 to den + 1.             *)
(***************************************************************************)
SayInit ==
    /\ Idle
    /\ lastEvent = "init"
    /\ \E den \in 1..MaxDen : \E num \in -1..(den + 1) : arg = <<<<num, den>>>>
    /\ ret = <<>>

Say ==
    /\ lastEvent = "init"
    /\ lastEvent' = "say"
    /\ ret' = <<computeSay(arg[1])>>
    /\ UNCHANGED <<currentData, currentFeatureCount, answerText, tableView,
                   download, say, arg>>

SayNext == Say

SaySpec == SayInit /\ [][SayNext]_vars

(***************************************************************************)
(* What the claims speak of, stated from the dataset alone.                *)
(***************************************************************************)
FeatureOrder == <<"f1", "f2", "f3">>

\* the numeric values rows carry for feature fname
NumericValues(rows, fname) ==
    {Feature(rows[i], fname) : i \in {j \in 1..Len(rows) :
                                         IsNumber(Feature(rows[j], fname))}}

\* the valid boundaries: two distinct values of one feature that are
\* adjacent in sorted order
Boundaries(rows) ==
    UNION {{[f |-> k, lo |-> v[1], hi |-> v[2]] :
               v \in {w \in NumericValues(rows, FeatureOrder[k])
                              \X NumericValues(rows, FeatureOrder[k]) :
                         /\ w[1] < w[2]
                         /\ ~\E c \in NumericValues(rows, FeatureOrder[k]) :
                                w[1] < c /\ c < w[2]}} :
           k \in 1..3}

\* the rows on the left (value <= lo) or right (value >= hi) of boundary b
\* that carry label y; rows without the feature's value are on no side
SideCount(rows, b, side, y) ==
    Cardinality({i \in 1..Len(rows) :
        LET x == Feature(rows[i], FeatureOrder[b.f])
        IN  /\ IsNumber(x)
            /\ rows[i].y = y
            /\ IF side = "left" THEN x <= b.lo ELSE x >= b.hi})

\* the size-weighted Gini impurity of boundary b:
\* (nL (1 - p0^2 - p1^2) + nR (1 - q0^2 - q1^2)) / (nL + nR)
\*   = 2 (l0 l1 nR + r0 r1 nL) / (nL nR (nL + nR))
BoundaryImpurity(rows, b) ==
    LET l0 == SideCount(rows, b, "left", 0)
        l1 == SideCount(rows, b, "left", 1)
        r0 == SideCount(rows, b, "right", 0)
        r1 == SideCount(rows, b, "right", 1)
    IN  Frac(2 * (l0 * l1 * (r0 + r1) + r0 * r1 * (l0 + l1)),
             (l0 + l1) * (r0 + r1) * (l0 + l1 + r0 + r1))

\* the majority label of a side, a tie giving 1
SideMajority(rows, b, side) ==
    IF SideCount(rows, b, side, 1) >= SideCount(rows, b, side, 0) THEN 1 ELSE 0

\* boundary a is met before boundary b: features in the order f1, f2, f3,
\* boundaries of one feature in ascending position
MetBefore(a, b) == a.f < b.f \/ (a.f = b.f /\ a.lo < b.lo)

\* descriptor d is the split at boundary b
IsSplitAt(rows, d, b) ==
    /\ d.feature = FeatureOrder[b.f]
    /\ d.threshold = Midpoint(b.lo, b.hi)
    /\ d.leftPred = SideMajority(rows, b, "left")
    /\ d.rightPred = SideMajority(rows, b, "right")

\* the overall majority label, a tie giving 1
OverallMajority(rows) ==
    IF Cardinality({i \in 1..Len(rows) : rows[i].y = 1})
         >= Cardinality({i \in 1..Len(rows) : rows[i].y = 0})
    THEN 1 ELSE 0

\* a direct call of the trainer on a dataset of at least one row has returned
Fitted == lastEvent = "fit" /\ Len(currentData) >= 1

(***************************************************************************)
(* C2.  For every non-empty dataset of n rows the returned descriptor has  *)
(* an integer errorCount with 0 <= errorCount <= n and errorRate equal to  *)
(* errorCount / n, on the split path and on the fallback path.             *)
(***************************************************************************)
C2_ErrorCountAndRate ==
    Fitted =>
        /\ ret[1].errorCount \in 0..Len(currentData)
        /\ ret[1].errorRate = Frac(ret[1].errorCount, Len(currentData))

\* a split on f3, which one row lacks, with a misclassified row
C2_Witness ==
    /\ Fitted
    /\ ret[1].feature = "f3"
    /\ \E i \in 1..Len(currentData) : ~IsNumber(currentData[i].f3)
    /\ ret[1].errorCount >= 1

(***************************************************************************)
(* C3.  On a dataset of zero rows trainDecisionStumpGini returns null and  *)
(* no descriptor; a reveal click while the current dataset is empty        *)
(* computes no say value and leaves the answer text as it was.             *)
(***************************************************************************)
C3_EmptyDataset ==
    [][ currentData = <<>> =>
          /\ lastEvent' = "fit" => ret' = <<NoResult>>
          /\ lastEvent' = "reveal" => say' = NoSay /\ answerText' = answerText
      ]_vars

\* the trainer, then the reveal handler, have run on the empty dataset
C3_Witness ==
    /\ currentData = <<>>
    /\ lastEvent = "reveal"
    /\ ret = <<NoResult>>
    /\ say = NoSay
    /\ answerText = StaleText

(***************************************************************************)
(* C4.  For every non-empty dataset in which no active feature has two     *)
(* distinct values the trainer returns the constant-prediction fallback:   *)
(* no feature, no threshold, leftPred = rightPred = the overall majority   *)
(* label (a tie giving 1), errorCount = the number of rows whose label     *)
(* differs from it.                                                        *)
(***************************************************************************)
C4_Fallback ==
    (Fitted /\ Boundaries(currentData) = {}) =>
        /\ ret[1].feature = None
        /\ ret[1].threshold = Null
        /\ ret[1].leftPred = OverallMajority(currentData)
        /\ ret[1].rightPred = OverallMajority(currentData)
        /\ ret[1].errorCount =
              Cardinality({i \in 1..Len(currentData) :
                              currentData[i].y # OverallMajority(currentData)})

\* constant features, as many rows of label 0 as of label 1
C4_Witness ==
    /\ Fitted
    /\ Boundaries(currentData) = {}
    /\ Len(currentData) = 2
    /\ currentData[1].y # currentData[2].y
    /\ ret[1].leftPred = 1
    /\ ret[1].errorCount = 1

AllNumeric(rows) ==
    \A i \in 1..Len(rows) : HasF3(rows) => IsNumber(rows[i].f3)

\* the smaller of the two label counts
MinorityCount(rows) ==
    IF CountRows(rows, 0) <= CountRows(rows, 1)
    THEN CountRows(rows, 0) ELSE CountRows(rows, 1)

C10_ErrorAtMostMinority ==
    (Fitted /\ AllNumeric(currentData)) =>
        /\ ret[1].errorCount <= MinorityCount(currentData)
        /\ 2 * ret[1].errorRate[1] <= ret[1].errorRate[2]
        /\ computeSay(ret[1].errorRate) # NegInfinity
        /\ computeSay(ret[1].errorRate).kind = "finite" =>
              computeSay(ret[1].errorRate).sign >= 0

(***************************************************************************)
(* C1.  For every n >= 1, featureCount 2 or 3 and every sequence of random *)
(* values, generateDataset returns exactly n points with ids 1..n in       *)
(* generation order, each with numeric f1 and f2 and a label 0 or 1; f3 is *)
(* numeric on every point when featureCount = 3 and null on every point    *)
(* when featureCount = 2.                                                  *)
(***************************************************************************)
C1_GeneratedDataset ==
    (lastEvent = "generate" /\ arg[1].n >= 1) =>
        /\ Len(ret[1]) = arg[1].n
        /\ \A i \in 1..Len(ret[1]) :
              /\ ret[1][i].id = i
              /\ IsNumber(ret[1][i].f1)
              /\ IsNumber(ret[1][i].f2)
              /\ ret[1][i].y \in {0, 1}
              /\ arg[1].featureCount = 3 => IsNumber(ret[1][i].f3)
              /\ arg[1].featureCount = 2 => ret[1][i].f3 = Null

\* MaxN points of three features, with both labels among them
C1_Witness ==
    /\ lastEvent = "generate"
    /\ arg[1].n = MaxN
    /\ arg[1].featureCount = 3
    /\ Len(ret[1]) = MaxN
    /\ \E i, j \in 1..Len(ret[1]) : ret[1][i].y = 0 /\ ret[1][j].y = 1

PointFeatureCount(r) == IF IsNumber(r.f3) THEN 3 ELSE 2

C7_FifteenRowsOneFeatureCount ==
    /\ Len(currentData) = 15
    /\ currentFeatureCount \in {2, 3}
    /\ \A i \in 1..Len(currentData) :
          /\ IsNumber(currentData[i].f1)
          /\ IsNumber(currentData[i].f2)
          /\ PointFeatureCount(currentData[i]) = currentFeatureCount
    /\ download # <<>> =>
          /\ download[1].rows = 15
          /\ download[1].f = PointFeatureCount(currentData[1])

\* a three-feature dataset has been revealed and then downloaded
C7_Witness ==
    /\ lastEvent = "download"
    /\ download # <<>>
    /\ download[1].f = 3
    /\ answerText # EmptyText
    /\ \A i \in 1..Len(currentData) : IsNumber(currentData[i].f3)

(***************************************************************************)
(* C9.  In every state reachable by regenerate and reveal clicks after     *)
(* page load the answer text is empty or is the summary of the stump       *)
(* fitted to the dataset currently held: a result computed from a replaced *)
(* dataset is never shown next to its successor.                           *)
(***************************************************************************)
\* the text a reveal click writes for the dataset rows
SummaryOf(rows) ==
    AnswerParts(trainDecisionStumpGini(rows),
                computeSay(trainDecisionStumpGini(rows).errorRate),
                Len(rows))

C9_AnswerIsOfCurrentDataset ==
    answerText = EmptyText \/ answerText = SummaryOf(currentData)

\* a reveal click has shown a split with a positive training error
C9_Witness ==
    /\ lastEvent = "reveal"
    /\ answerText # EmptyText
    /\ answerText = SummaryOf(currentData)
    /\ answerText[2].errorCount >= 1
    /\ trainDecisionStumpGini(currentData).feature # None

====
